---- MODULE Spec2Model ----
(***************************************************************************)
(* Model of crusp-variables: the sorted value-set domain IntVarValues<T>   *)
(* (src/src/int_var/values.rs) and the change classifications it returns   *)
(* (src/src/int_var.rs).  Two variables, A = dom[1] and B = dom[2], are    *)
(* built by the constructors and then narrowed by the capability           *)
(* operations.  `last` records the most recent call: its name, its         *)
(* receiver, its arguments, the domains before the call and what it        *)
(* returned.                                                               *)
(***************************************************************************)
EXTENDS Integers, Sequences, FiniteSets

(* ------------------------------ bounds --------------------------------- *)

\* Domain values are drawn from 0..MaxVal.
MaxVal == 3

\* Longest value list handed to new_from_values / in_values / in_sorted_values.
MaxLen == 2

\* Width in bits of the signed integer type T the domain is instantiated at.
TBits == 4

Values == 0..MaxVal

\* Arguments of set_value, remove_value and the bound operations: one value
\* below and one above every domain value as well.
ArgValues == (0 - 1)..(MaxVal + 1)

Vars == {1, 2}

ValueLists == UNION {[1..n -> Values] : n \in 0..MaxLen}

TMin == 0 - 2 ^ (TBits - 1)

TMax == 2 ^ (TBits - 1) - 1

(* ----------------------- Option, Vec and BTreeSet ---------------------- *)

\* Option<&T>: None is the empty sequence, Some(x) the one-element sequence.
None == <<>>

Some(x) == <<x>>

\* T's `+` in a build without overflow checks: two's-complement wrap-around.
WrapAdd(x, y) == ((x + y - TMin) % (2 ^ TBits)) + TMin

\* BTreeSet<T> collected from an iterator.
ToSet(s) == {s[i] : i \in DOMAIN s}

SetMin(S) == CHOOSE x \in S : \A y \in S : x <= y

RECURSIVE SetToVec(_)
\* A BTreeSet iterated in ascending order and collected into a Vec.
SetToVec(S) == IF S = {} THEN <<>> ELSE <<SetMin(S)>> \o SetToVec(S \ {SetMin(S)})

RECURSIVE InsertSorted(_, _)
InsertSorted(x, s) ==
    IF s = <<>> THEN <<x>>
    ELSE IF x <= Head(s) THEN <<x>> \o s
    ELSE <<Head(s)>> \o InsertSorted(x, Tail(s))

RECURSIVE sort(_)
\* Vec::sort
sort(s) == IF s = <<>> THEN <<>> ELSE InsertSorted(Head(s), sort(Tail(s)))

RECURSIVE dedup(_)
\* Vec::dedup: drops every element equal to its predecessor.
dedup(s) ==
    IF Len(s) <= 1 THEN s
    ELSE IF s[1] = s[2] THEN dedup(Tail(s))
    ELSE <<Head(s)>> \o dedup(Tail(s))

RECURSIVE BinarySearchFrom(_, _, _, _)
\* slice::binary_search over s[lo..hi): Some(index) when found, else None.
BinarySearchFrom(s, x, lo, hi) ==
    IF lo >= hi THEN None
    ELSE LET mid == lo + ((hi - lo) \div 2)
         IN  IF s[mid] = x THEN Some(mid)
             ELSE IF s[mid] < x THEN BinarySearchFrom(s, x, mid + 1, hi)
             ELSE BinarySearchFrom(s, x, lo, mid)

binary_search(s, x) == BinarySearchFrom(s, x, 1, Len(s) + 1)

\* Vec::remove(index), 1-based.
RemoveAt(s, i) == SubSeq(s, 1, i - 1) \o SubSeq(s, i + 1, Len(s))

(* ------------------------- result of a call ---------------------------- *)

\* Result<IntVariableState, VariableError> of a call on one domain, with the
\* domain the call leaves behind.  tag "Panic" is the abort of
\* unchecked_min / unchecked_max on an empty domain.
Ok(d, s) == [domain |-> d, tag |-> "Ok", st |-> <<s>>]

Err(d) == [domain |-> d, tag |-> "Err", st |-> <<"DomainWipeout">>]

Panic(d) == [domain |-> d, tag |-> "Panic", st |-> <<>>]

\* The same for a call on two domains.
Ok2(a, b, s1, s2) == [self |-> a, value |-> b, tag |-> "Ok", st |-> <<s1, s2>>]

Err2(a, b) == [self |-> a, value |-> b, tag |-> "Err", st |-> <<"DomainWipeout">>]

(* --------------------------- constructors ------------------------------ *)

RECURSIVE RangeLoop(_, _, _)
\* while val < max + one { domain.push(val); val = val + one; }
RangeLoop(val, limit, domain) ==
    IF val < limit THEN RangeLoop(WrapAdd(val, 1), limit, Append(domain, val))
    ELSE domain

new_from_range(lo, hi) ==
    IF lo > hi THEN [some |-> FALSE, domain |-> <<>>]
    ELSE [some |-> TRUE, domain |-> RangeLoop(lo, WrapAdd(hi, 1), <<>>)]

try_new(lo, hi) ==
    IF lo > hi THEN [some |-> FALSE, domain |-> <<>>]
    ELSE [some |-> TRUE, domain |-> RangeLoop(lo, WrapAdd(hi, 1), <<>>)]

\* new_from_values with the sort and the dedup left out.
new_from_values_unsorted(values) ==
    IF values = <<>> THEN [some |-> FALSE, domain |-> <<>>]
    ELSE [some |-> TRUE, domain |-> values]

new_from_values(values) ==
    LET domain == dedup(sort(values))
    IN  IF domain = <<>> THEN [some |-> FALSE, domain |-> <<>>]
        ELSE [some |-> TRUE, domain |-> domain]

(* ------------------------------ queries -------------------------------- *)

size(d) == Len(d)

min(d) == IF d = <<>> THEN None ELSE Some(d[1])

max(d) == IF d = <<>> THEN None ELSE Some(d[Len(d)])

\* Defined only when min(d) / max(d) is Some; the callers below model the
\* panic on None themselves.
unchecked_min(d) == min(d)[1]

unchecked_max(d) == max(d)[1]

is_affected(d) == Len(d) = 1

value(d) == IF min(d) = max(d) THEN min(d) ELSE None

invalidate(d) == <<>>

(* ---------------------- IntVarValues operations ------------------------ *)

\* A predicate handed to remove_if / retains_if is the set p of the values
\* it holds for.
pred(p, v) == v \in p

\* Iterator::rposition: the last position whose element satisfies the test.
RPositionLt(d, ub) == CHOOSE i \in DOMAIN d : d[i] < ub /\ \A j \in DOMAIN d : j > i => ~(d[j] < ub)

RPositionLe(d, ub) == CHOOSE i \in DOMAIN d : d[i] <= ub /\ \A j \in DOMAIN d : j > i => ~(d[j] <= ub)

\* Iterator::position: the first position whose element satisfies the test.
PositionGt(d, lb) == CHOOSE i \in DOMAIN d : d[i] > lb /\ \A j \in DOMAIN d : j < i => ~(d[j] > lb)

PositionGe(d, lb) == CHOOSE i \in DOMAIN d : d[i] >= lb /\ \A j \in DOMAIN d : j < i => ~(d[j] >= lb)

\* domain_change with the size comparison left out.
domain_change_no_size(d, prev_min, prev_max, prev_size) ==
    IF d = <<>> THEN Err(invalidate(d))
    ELSE IF unchecked_min(d) # prev_min \/ unchecked_max(d) # prev_max THEN Ok(d, "BoundsChange")
    ELSE Ok(d, "ValuesChange")

\* domain_change without the test for an emptied domain, which it reports as
\* a change of bounds.
domain_change_no_wipeout(d, prev_min, prev_max, prev_size) ==
    IF size(d) = prev_size THEN Ok(d, "NoChange")
    ELSE IF d = <<>> THEN Ok(d, "BoundsChange")
    ELSE IF unchecked_min(d) # prev_min \/ unchecked_max(d) # prev_max THEN Ok(d, "BoundsChange")
    ELSE Ok(d, "ValuesChange")

\* IntVarValues::domain_change, d being the domain after the pruning.
domain_change(d, prev_min, prev_max, prev_size) ==
    IF d = <<>> THEN Err(invalidate(d))
    ELSE IF size(d) = prev_size THEN Ok(d, "NoChange")
    ELSE IF unchecked_min(d) # prev_min \/ unchecked_max(d) # prev_max THEN Ok(d, "BoundsChange")
    ELSE Ok(d, "ValuesChange")

\* set_value without the test for an already assigned variable.
set_value_always_assigns(d, v) ==
    IF d = <<>> THEN Panic(d)
    ELSE IF unchecked_min(d) > v \/ unchecked_max(d) < v THEN Err(d)
    ELSE IF binary_search(d, v) # None THEN Ok(<<v>>, "BoundsChange")
    ELSE Err(invalidate(d))

\* set_value assigning every value within the bounds, without looking it up.
set_value_skips_search(d, v) ==
    IF d = <<>> THEN Panic(d)
    ELSE IF unchecked_min(d) > v \/ unchecked_max(d) < v THEN Err(d)
    ELSE IF value(d) = Some(v) THEN Ok(d, "NoChange")
    ELSE Ok(<<v>>, "BoundsChange")

set_value(d, v) ==
    IF d = <<>> THEN Panic(d)
    ELSE IF unchecked_min(d) > v \/ unchecked_max(d) < v THEN Err(d)
    ELSE IF value(d) = Some(v) THEN Ok(d, "NoChange")
    ELSE IF binary_search(d, v) # None THEN Ok(<<v>>, "BoundsChange")
    ELSE Err(invalidate(d))

\* strict_upperbound cutting with <= instead of <.
strict_upperbound_cuts_weakly(d, ub) ==
    IF d = <<>> THEN Panic(d)
    ELSE IF unchecked_max(d) < ub THEN Ok(d, "NoChange")
    ELSE IF unchecked_min(d) >= ub THEN Err(d)
    ELSE Ok(SubSeq(d, 1, RPositionLe(d, ub)), "BoundsChange")

strict_upperbound(d, ub) ==
    IF d = <<>> THEN Panic(d)
    ELSE IF unchecked_max(d) < ub THEN Ok(d, "NoChange")
    ELSE IF unchecked_min(d) >= ub THEN Err(d)
    ELSE Ok(SubSeq(d, 1, RPositionLt(d, ub)), "BoundsChange")

\* weak_upperbound testing the upper bound with < instead of <=.
weak_upperbound_tests_strictly(d, ub) ==
    IF d = <<>> THEN Panic(d)
    ELSE IF unchecked_max(d) < ub THEN Ok(d, "NoChange")
    ELSE IF unchecked_min(d) > ub THEN Err(d)
    ELSE Ok(SubSeq(d, 1, RPositionLe(d, ub)), "BoundsChange")

weak_upperbound(d, ub) ==
    IF d = <<>> THEN Panic(d)
    ELSE IF unchecked_max(d) <= ub THEN Ok(d, "NoChange")
    ELSE IF unchecked_min(d) > ub THEN Err(d)
    ELSE Ok(SubSeq(d, 1, RPositionLe(d, ub)), "BoundsChange")

strict_lowerbound(d, lb) ==
    IF d = <<>> THEN Panic(d)
    ELSE IF unchecked_min(d) > lb THEN Ok(d, "NoChange")
    ELSE IF unchecked_max(d) <= lb THEN Err(d)
    ELSE Ok(SubSeq(d, PositionGt(d, lb), Len(d)), "BoundsChange")

weak_lowerbound(d, lb) ==
    IF d = <<>> THEN Panic(d)
    ELSE IF unchecked_min(d) >= lb THEN Ok(d, "NoChange")
    ELSE IF unchecked_max(d) < lb THEN Err(d)
    ELSE Ok(SubSeq(d, PositionGe(d, lb), Len(d)), "BoundsChange")

\* check_change comparing the lower bound only.
check_change_min_only(var, domain) ==
    IF size(var) = Len(domain) THEN "NoChange"
    ELSE IF unchecked_min(var) # domain[1] THEN "BoundsChange"
    ELSE "ValuesChange"

\* The closure check_change of equal and in_sorted_values: var is a domain
\* before the call, domain the non-empty intersection.
check_change(var, domain) ==
    IF size(var) = Len(domain) THEN "NoChange"
    ELSE IF unchecked_min(var) # domain[1] \/ unchecked_max(var) # domain[Len(domain)]
         THEN "BoundsChange"
    ELSE "ValuesChange"

\* equal assigning the intersection to self only.
equal_self_only(self, val) ==
    LET domain == SetToVec(ToSet(self) \cap ToSet(val))
    IN  IF domain = <<>> THEN Err2(invalidate(self), invalidate(val))
        ELSE Ok2(domain, val, check_change(self, domain), check_change(val, domain))

equal(self, val) ==
    LET domain == SetToVec(ToSet(self) \cap ToSet(val))
    IN  IF domain = <<>> THEN Err2(invalidate(self), invalidate(val))
        ELSE Ok2(domain, domain, check_change(self, domain), check_change(val, domain))

\* remove_value classifying by the lower bound only.
remove_value_min_only(d, v) ==
    IF d = <<>> THEN Panic(d)
    ELSE IF unchecked_min(d) > v /\ unchecked_max(d) < v THEN Ok(d, "NoChange")
    ELSE LET found_value == binary_search(d, v)
         IN  IF found_value = None THEN Ok(d, "NoChange")
             ELSE LET after == RemoveAt(d, found_value[1])
                  IN  IF size(after) = 0 THEN Err(after)
                      ELSE IF min(after) # min(d) THEN Ok(after, "BoundsChange")
                      ELSE Ok(after, "ValuesChange")

remove_value(d, v) ==
    IF d = <<>> THEN Panic(d)
    ELSE IF unchecked_min(d) > v /\ unchecked_max(d) < v THEN Ok(d, "NoChange")
    ELSE LET found_value == binary_search(d, v)
         IN  IF found_value = None THEN Ok(d, "NoChange")
             ELSE LET after == RemoveAt(d, found_value[1])
                  IN  IF size(after) = 0 THEN Err(after)
                      ELSE IF min(after) # min(d) \/ max(after) # max(d)
                           THEN Ok(after, "BoundsChange")
                      ELSE Ok(after, "ValuesChange")

\* not_equal looking at self's value only: a singleton `value` prunes nothing.
not_equal_first_side_only(self, val) ==
    IF value(self) # None
    THEN LET r == remove_value(val, value(self)[1])
         IN  IF r.tag = "Ok" THEN Ok2(self, r.domain, "NoChange", r.st[1])
             ELSE [self |-> self, value |-> r.domain, tag |-> r.tag, st |-> r.st]
    ELSE Ok2(self, val, "NoChange", "NoChange")

not_equal(self, val) ==
    IF value(self) # None
    THEN LET r == remove_value(val, value(self)[1])
         IN  IF r.tag = "Ok" THEN Ok2(self, r.domain, "NoChange", r.st[1])
             ELSE [self |-> self, value |-> r.domain, tag |-> r.tag, st |-> r.st]
    ELSE IF value(val) # None
    THEN LET r == remove_value(self, value(val)[1])
         IN  IF r.tag = "Ok" THEN Ok2(r.domain, val, r.st[1], "NoChange")
             ELSE [self |-> r.domain, value |-> val, tag |-> r.tag, st |-> r.st]
    ELSE Ok2(self, val, "NoChange", "NoChange")

remove_if(d, p) ==
    IF d = <<>> THEN Panic(d)
    ELSE domain_change(SelectSeq(d, LAMBDA v : ~pred(p, v)),
                       unchecked_min(d), unchecked_max(d), size(d))

retains_if(d, p) ==
    IF d = <<>> THEN Panic(d)
    ELSE domain_change(SelectSeq(d, LAMBDA v : pred(p, v)),
                       unchecked_min(d), unchecked_max(d), size(d))

\* in_sorted_values taking the supplied values as they come, without
\* intersecting them with the domain.
in_sorted_values_no_intersection(d, values) ==
    LET domain == SetToVec(ToSet(values))
    IN  IF ToSet(d) \cap ToSet(values) = {} THEN Err(invalidate(d))
        ELSE Ok(domain, check_change(d, domain))

in_sorted_values(d, values) ==
    LET domain == SetToVec(ToSet(d) \cap ToSet(values))
    IN  IF domain = <<>> THEN Err(invalidate(d))
        ELSE Ok(domain, check_change(d, domain))

in_values(d, values) == in_sorted_values(d, sort(values))

(* --------------------------- state machine ----------------------------- *)

VARIABLES
    dom,    \* dom[1], dom[2]: the Vec<T> of the two variables A and B
    last,   \* the call that has just returned, or NoCall between calls
    sink,   \* what the last call pushed to its observer, in order
    app     \* a pure function applied to operands: classifications, constructors

vars == <<dom, last, sink, app>>

\* No pure function is being applied.
NoApp == [fn |-> "none"]

NoCall ==
    [op |-> "none", var |-> 0, val |-> 0, vals |-> <<>>, pred |-> {},
     pre |-> <<<<>>, <<>>>>, tag |-> "None", st |-> <<>>]

\* Value lists in ascending order, as in_sorted_values expects them.
SortedLists == {s \in ValueLists : \A i \in 1..(Len(s) - 1) : s[i] <= s[i + 1]}

\* The domains a constructor returns (Some) on inputs drawn from Values.
Constructed ==
    {new_from_range(r[1], r[2]).domain :
        r \in {q \in Values \X Values : new_from_range(q[1], q[2]).some}}
    \cup {try_new(r[1], r[2]).domain :
        r \in {q \in Values \X Values : try_new(q[1], q[2]).some}}
    \cup {new_from_values(s).domain : s \in {l \in ValueLists : new_from_values(l).some}}

Init ==
    /\ dom \in {<<a, b>> : a \in Constructed, b \in Constructed}
    /\ last = NoCall
    /\ sink = <<>>
    /\ app = NoApp

Idle == last.op = "none"

\* A call on the one domain dom[i] returned r.
Returned1(name, i, v, vs, p, r) ==
    /\ dom' = [dom EXCEPT ![i] = r.domain]
    /\ last' = [op |-> name, var |-> i, val |-> v, vals |-> vs, pred |-> p,
                pre |-> dom, tag |-> r.tag, st |-> r.st]
    /\ UNCHANGED <<sink, app>>

\* A call with self = dom[i] and value = dom[3 - i] returned r.
Returned2(name, i, r) ==
    /\ dom' = [dom EXCEPT ![i] = r.self, ![3 - i] = r.value]
    /\ last' = [op |-> name, var |-> i, val |-> 0, vals |-> <<>>, pred |-> {},
                pre |-> dom, tag |-> r.tag, st |-> r.st]
    /\ UNCHANGED <<sink, app>>

SetValue(i, v) == Idle /\ Returned1("set_value", i, v, <<>>, {}, set_value(dom[i], v))

StrictUpperbound(i, ub) ==
    Idle /\ Returned1("strict_upperbound", i, ub, <<>>, {}, strict_upperbound(dom[i], ub))

WeakUpperbound(i, ub) ==
    Idle /\ Returned1("weak_upperbound", i, ub, <<>>, {}, weak_upperbound(dom[i], ub))

StrictLowerbound(i, lb) ==
    Idle /\ Returned1("strict_lowerbound", i, lb, <<>>, {}, strict_lowerbound(dom[i], lb))

WeakLowerbound(i, lb) ==
    Idle /\ Returned1("weak_lowerbound", i, lb, <<>>, {}, weak_lowerbound(dom[i], lb))

Equal(i) == Idle /\ Returned2("equal", i, equal(dom[i], dom[3 - i]))

NotEqual(i) == Idle /\ Returned2("not_equal", i, not_equal(dom[i], dom[3 - i]))

InValues(i, vs) == Idle /\ Returned1("in_values", i, 0, vs, {}, in_values(dom[i], vs))

InSortedValues(i, vs) ==
    Idle /\ Returned1("in_sorted_values", i, 0, vs, {}, in_sorted_values(dom[i], vs))

RemoveValue(i, v) == Idle /\ Returned1("remove_value", i, v, <<>>, {}, remove_value(dom[i], v))

RemoveIf(i, p) == Idle /\ Returned1("remove_if", i, 0, <<>>, p, remove_if(dom[i], p))

RetainsIf(i, p) == Idle /\ Returned1("retains_if", i, 0, <<>>, p, retains_if(dom[i], p))

\* The caller takes the result and goes on; a panic ends the program.
Resume ==
    /\ ~Idle
    /\ last.tag # "Panic"
    /\ last' = NoCall
    /\ UNCHANGED <<dom, sink, app>>

Next ==
    \/ \E i \in Vars, v \in ArgValues : SetValue(i, v)
    \/ \E i \in Vars, ub \in ArgValues : StrictUpperbound(i, ub)
    \/ \E i \in Vars, ub \in ArgValues : WeakUpperbound(i, ub)
    \/ \E i \in Vars, lb \in ArgValues : StrictLowerbound(i, lb)
    \/ \E i \in Vars, lb \in ArgValues : WeakLowerbound(i, lb)
    \/ \E i \in Vars : Equal(i)
    \/ \E i \in Vars : NotEqual(i)
    \/ \E i \in Vars, vs \in ValueLists : InValues(i, vs)
    \/ \E i \in Vars, vs \in SortedLists : InSortedValues(i, vs)
    \/ \E i \in Vars, v \in ArgValues : RemoveValue(i, v)
    \/ \E i \in Vars, p \in SUBSET Values : RemoveIf(i, p)
    \/ \E i \in Vars, p \in SUBSET Values : RetainsIf(i, p)
    \/ Resume

Spec == Init /\ [][Next]_vars

(* ------------------------------ properties ----------------------------- *)

\* What the properties read from the call that has just returned.
Self == last.var

Other == 3 - last.var

\* The receiver's admissible values before the call, and the other
\* variable's.
PreSelf == ToSet(last.pre[Self])

PreOther == ToSet(last.pre[Other])

SetMax(S) == CHOOSE x \in S : \A y \in S : y <= x

StrictlyAscending(d) == \A i \in 1..(Len(d) - 1) : d[i] < d[i + 1]

BoundOps == {"strict_upperbound", "weak_upperbound", "strict_lowerbound", "weak_lowerbound"}

\* The values of D that a bound operation with bound b keeps.
Kept(name, D, b) ==
    CASE name = "strict_upperbound" -> {v \in D : v < b}
      [] name = "weak_upperbound" -> {v \in D : v <= b}
      [] name = "strict_lowerbound" -> {v \in D : v > b}
      [] name = "weak_lowerbound" -> {v \in D : v >= b}

\* The three-way rule on sets: After is what is left of the non-empty Before.
Classified(Before, After) ==
    IF Cardinality(After) = Cardinality(Before) THEN "NoChange"
    ELSE IF SetMin(After) # SetMin(Before) \/ SetMax(After) # SetMax(Before) THEN "BoundsChange"
    ELSE "ValuesChange"

\* C1: in every reachable state each stored sequence is strictly ascending
\* (so duplicate-free), size() is its length and the number of its values,
\* and min()/max() are its first/last element, the least/greatest value, or
\* None when it is empty.
C1_SortedSequence ==
    \A i \in Vars :
        /\ StrictlyAscending(dom[i])
        /\ size(dom[i]) = Len(dom[i])
        /\ size(dom[i]) = Cardinality(ToSet(dom[i]))
        /\ dom[i] = <<>> => min(dom[i]) = None /\ max(dom[i]) = None
        /\ dom[i] # <<>> =>
            /\ min(dom[i]) = Some(dom[i][1])
            /\ max(dom[i]) = Some(dom[i][Len(dom[i])])
            /\ min(dom[i]) = Some(SetMin(ToSet(dom[i])))
            /\ max(dom[i]) = Some(SetMax(ToSet(dom[i])))

\* An unsorted list with a repetition-free result has been intersected into
\* a domain that keeps two values.
C1_Witness ==
    /\ last.op = "in_values"
    /\ last.vals = <<2, 0>>
    /\ last.tag = "Ok"
    /\ dom[Self] = <<0, 2>>
    /\ size(dom[Self]) = 2

\* C2: a bound operation that does not fail on a non-empty domain D leaves
\* exactly the values of D on the right side of the bound: v < b, v <= b,
\* v > b, v >= b for strict_upperbound, weak_upperbound, strict_lowerbound,
\* weak_lowerbound; the other variable is untouched.
C2_BoundsLeaveExactly ==
    (last.op \in BoundOps /\ last.pre[Self] # <<>> /\ last.tag = "Ok") =>
        /\ ToSet(dom[Self]) = Kept(last.op, PreSelf, last.val)
        /\ dom[Other] = last.pre[Other]

\* strict_upperbound(2) on {0,1,2,3} has left {0,1}.
C2_Witness ==
    /\ last.op = "strict_upperbound"
    /\ last.pre[Self] = <<0, 1, 2, 3>>
    /\ last.val = 2
    /\ last.tag = "Ok"
    /\ dom[Self] = <<0, 1>>

\* C3: a bound operation on a non-empty domain returns NoChange when no
\* value violates the bound, fails with DomainWipeout when every value
\* violates it, and otherwise returns MaxBoundChange (upper bounds) or
\* MinBoundChange (lower bounds).
C3_BoundClassification ==
    (last.op \in BoundOps /\ last.pre[Self] # <<>>) =>
        LET kept == Kept(last.op, PreSelf, last.val)
        IN  /\ kept = PreSelf => last.tag = "Ok" /\ last.st = <<"NoChange">>
            /\ kept = {} => last.tag = "Err" /\ last.st = <<"DomainWipeout">>
            /\ (kept # PreSelf /\ kept # {}) =>
                /\ last.tag = "Ok"
                /\ last.st = IF last.op \in {"strict_upperbound", "weak_upperbound"}
                             THEN <<"MaxBoundChange">>
                             ELSE <<"MinBoundChange">>

\* C4: on a non-empty domain D, set_value(v) fails with DomainWipeout if v
\* is not in D, returns NoChange and leaves D alone if D = {v}, and
\* otherwise leaves exactly {v} and returns BoundsChange; so a set_value(v)
\* that follows a successful set_value(v) finds {v} and returns NoChange.
C4_SetValue ==
    (last.op = "set_value" /\ last.pre[Self] # <<>>) =>
        /\ last.val \notin PreSelf => last.tag = "Err" /\ last.st = <<"DomainWipeout">>
        /\ PreSelf = {last.val} =>
            last.tag = "Ok" /\ last.st = <<"NoChange">> /\ dom[Self] = last.pre[Self]
        /\ (last.val \in PreSelf /\ PreSelf # {last.val}) =>
            last.tag = "Ok" /\ last.st = <<"BoundsChange">> /\ dom[Self] = <<last.val>>
        /\ last.tag = "Ok" => set_value(dom[Self], last.val) = Ok(dom[Self], "NoChange")
        /\ dom[Other] = last.pre[Other]

\* set_value(1) on the already assigned {1} has returned NoChange.
C4_Witness ==
    /\ last.op = "set_value"
    /\ last.pre[Self] = <<1>>
    /\ last.val = 1
    /\ last.st = <<"NoChange">>
    /\ dom[Self] = <<1>>

\* C5: whenever a mutating operation fails with DomainWipeout the domain is
\* cleared: size() is 0 and min()/max() are None (for equal, on both sides).
C5_WipeoutClears ==
    (last.tag = "Err" /\ last.op \in BoundOps \cup {"set_value", "equal", "in_values",
                                     "remove_value", "remove_if", "retains_if"}) =>
        /\ size(dom[Self]) = 0
        /\ min(dom[Self]) = None
        /\ max(dom[Self]) = None
        /\ last.op = "equal" => size(dom[Other]) = 0

\* C6: equal leaves both domains equal to the intersection of what they
\* held when it is non-empty; when it is empty it fails with DomainWipeout
\* and leaves both empty.
C6_EqualIntersects ==
    last.op = "equal" =>
        LET both == PreSelf \cap PreOther
        IN  /\ both # {} =>
                last.tag = "Ok" /\ ToSet(dom[Self]) = both /\ ToSet(dom[Other]) = both
            /\ both = {} =>
                /\ last.tag = "Err" /\ last.st = <<"DomainWipeout">>
                /\ dom[Self] = <<>> /\ dom[Other] = <<>>

\* equal on {0,1,2} and {1,2,3} has left {1,2} on both sides.
C6_Witness ==
    /\ last.op = "equal"
    /\ last.pre = <<<<0, 1, 2>>, <<1, 2, 3>>>>
    /\ dom = <<<<1, 2>>, <<1, 2>>>>

\* C7: a successful equal returns one classification per side, from that
\* side's state before the call against the intersection: NoChange if the
\* sizes agree, BoundsChange if the min or the max differs, ValuesChange if
\* the side shrank with both bounds in place.
C7_EqualClassification ==
    (last.op = "equal" /\ last.tag = "Ok") =>
        last.st = <<Classified(PreSelf, PreSelf \cap PreOther),
                    Classified(PreOther, PreSelf \cap PreOther)>>

\* One side lost an inner value only, the other lost a bound.
C7_Witness ==
    /\ last.op = "equal"
    /\ last.tag = "Ok"
    /\ last.st = <<"ValuesChange", "BoundsChange">>

\* C8: on a non-empty domain D, remove_value(v) returns NoChange and leaves
\* D alone when v is not in D; when v is in D it deletes exactly v, failing
\* with DomainWipeout (domain empty) if D = {v}, returning BoundsChange if v
\* was the min or the max, and ValuesChange otherwise.
C8_RemoveValue ==
    (last.op = "remove_value" /\ last.pre[Self] # <<>>) =>
        /\ last.val \notin PreSelf =>
            last.tag = "Ok" /\ last.st = <<"NoChange">> /\ dom[Self] = last.pre[Self]
        /\ last.val \in PreSelf =>
            /\ ToSet(dom[Self]) = PreSelf \ {last.val}
            /\ PreSelf = {last.val} =>
                last.tag = "Err" /\ last.st = <<"DomainWipeout">> /\ dom[Self] = <<>>
            /\ (PreSelf # {last.val} /\ last.val \in {SetMin(PreSelf), SetMax(PreSelf)}) =>
                last.tag = "Ok" /\ last.st = <<"BoundsChange">>
            /\ (PreSelf # {last.val} /\ last.val \notin {SetMin(PreSelf), SetMax(PreSelf)}) =>
                last.tag = "Ok" /\ last.st = <<"ValuesChange">>
        /\ dom[Other] = last.pre[Other]

\* remove_value has deleted the greatest value of a domain.
C8_Witness ==
    /\ last.op = "remove_value"
    /\ last.pre[Self] = <<0, 1, 3>>
    /\ last.val = 3
    /\ last.st = <<"BoundsChange">>
    /\ dom[Self] = <<0, 1>>

\* C9: on a non-empty domain D, remove_if(p) leaves the values of D that p
\* rejects and retains_if(p) those it accepts; each fails with DomainWipeout
\* if nothing is left, returns NoChange if nothing was removed, BoundsChange
\* if the min or the max differs, ValuesChange if only inner values went.
C9_PredicatePruning ==
    (last.op \in {"remove_if", "retains_if"} /\ last.pre[Self] # <<>>) =>
        LET left == IF last.op = "remove_if" THEN PreSelf \ last.pred
                    ELSE PreSelf \cap last.pred
        IN  /\ ToSet(dom[Self]) = left
            /\ left = {} => last.tag = "Err" /\ last.st = <<"DomainWipeout">>
            /\ left # {} => last.tag = "Ok" /\ last.st = <<Classified(PreSelf, left)>>
            /\ dom[Other] = last.pre[Other]

\* remove_if has removed inner values only.
C9_Witness ==
    /\ last.op = "remove_if"
    /\ last.pre[Self] = <<0, 1, 2, 3>>
    /\ last.pred = {1, 2}
    /\ last.st = <<"ValuesChange">>
    /\ dom[Self] = <<0, 3>>

\* C10: in_values(S), S in any order and with any repetitions, leaves the
\* domain equal to D intersected with the elements of S, classified by the
\* three-way rule, and fails with DomainWipeout (domain empty) when that
\* intersection is empty; S sorted and deduplicated gives the same result.
C10_InValues ==
    last.op = "in_values" =>
        LET left == PreSelf \cap ToSet(last.vals)
        IN  /\ ToSet(dom[Self]) = left
            /\ left = {} => last.tag = "Err" /\ last.st = <<"DomainWipeout">>
            /\ left # {} => last.tag = "Ok" /\ last.st = <<Classified(PreSelf, left)>>
            /\ in_values(last.pre[Self], SetToVec(ToSet(last.vals)))
                = [domain |-> dom[Self], tag |-> last.tag, st |-> last.st]
            /\ dom[Other] = last.pre[Other]

\* A list with a repeated value has cut a domain down to that value.
C10_Witness ==
    /\ last.op = "in_values"
    /\ last.vals = <<3, 3>>
    /\ last.pre[Self] = <<1, 2, 3>>
    /\ last.st = <<"BoundsChange">>
    /\ dom[Self] = <<3>>

\* C11: on non-empty A (self) and B (value), not_equal changes nothing and
\* returns (NoChange, NoChange) if neither is a singleton; if A = {a} it
\* removes a from B, leaves A alone and classifies A as NoChange; otherwise
\* if B = {b} it removes b from A, leaves B alone and classifies B as
\* NoChange.  It fails with DomainWipeout exactly when A and B are the same
\* singleton, and after a successful call a singleton side's value is not in
\* the other side.
C11_NotEqual ==
    (last.op = "not_equal" /\ last.pre[Self] # <<>> /\ last.pre[Other] # <<>>) =>
        LET oneA == Cardinality(PreSelf) = 1
            oneB == Cardinality(PreOther) = 1
        IN  /\ (~oneA /\ ~oneB) =>
                last.tag = "Ok" /\ last.st = <<"NoChange", "NoChange">> /\ dom = last.pre
            /\ oneA =>
                /\ ToSet(dom[Other]) = PreOther \ PreSelf
                /\ dom[Self] = last.pre[Self]
                /\ last.tag = "Ok" => last.st[1] = "NoChange"
            /\ (~oneA /\ oneB) =>
                /\ ToSet(dom[Self]) = PreSelf \ PreOther
                /\ dom[Other] = last.pre[Other]
                /\ last.tag = "Ok" /\ last.st[2] = "NoChange"
            /\ last.tag \in {"Ok", "Err"}
            /\ last.tag = "Err" <=> (oneA /\ PreSelf = PreOther)
            /\ last.tag = "Err" => last.st = <<"DomainWipeout">>
            /\ last.tag = "Ok" =>
                \A k \in Vars : Cardinality(ToSet(dom[k])) = 1 =>
                    ToSet(dom[k]) \cap ToSet(dom[3 - k]) = {}

\* The singleton value {1} has been removed from the inside of self.
C11_Witness ==
    /\ last.op = "not_equal"
    /\ last.pre[Self] = <<0, 1, 2>>
    /\ last.pre[Other] = <<1>>
    /\ last.st = <<"ValuesChange", "NoChange">>
    /\ dom[Self] = <<0, 2>>
    /\ dom[Other] = <<1>>

(* ------------------- IntVariableState: merge and order ----------------- *)

\* #[repr(u8)] enum IntVariableState: the discriminant of each variant.
Discriminant ==
    [MaxBoundChange |-> 3, MinBoundChange |-> 5, BoundsChange |-> 7, ValuesChange |-> 15,
     NoChange |-> 0, UniversalChange |-> 224, UniversalError |-> 225]

IntVariableState == DOMAIN Discriminant

RECURSIVE BitAnd(_, _)
\* u8 & u8
BitAnd(x, y) ==
    IF x = 0 \/ y = 0 THEN 0
    ELSE (x % 2) * (y % 2) + 2 * BitAnd(x \div 2, y \div 2)

RECURSIVE BitOr(_, _)
\* u8 | u8
BitOr(x, y) ==
    IF x = 0 THEN y
    ELSE IF y = 0 THEN x
    ELSE ((x % 2) + (y % 2) - (x % 2) * (y % 2)) + 2 * BitOr(x \div 2, y \div 2)

\* !u8
BitNot(x) == 255 - x

\* u8 >> n
Shr(x, n) == x \div (2 ^ n)

\* std::mem::transmute::<IntVariableState, u8>
ToByte(state) == Discriminant[state]

\* std::mem::transmute::<u8, IntVariableState>; a byte that is no discriminant
\* has no variant, which "InvalidDiscriminant" stands for.
FromByte(byte) ==
    IF \E state \in IntVariableState : Discriminant[state] = byte
    THEN CHOOSE state \in IntVariableState : Discriminant[state] = byte
    ELSE "InvalidDiscriminant"

\* The byte computed by bitor without the mask that turns a universal change
\* mixed with a concrete one into UniversalError: the plain bitwise or.
bitor_byte_unmasked(lhs, rhs) == BitOr(lhs, rhs)

\* The byte computed by bitor with the universal bits taken from lhs alone.
bitor_byte_univ_of_lhs(lhs, rhs) ==
    LET univ == ToByte("UniversalChange")
        val == ToByte("ValuesChange")
        univ_bit == BitAnd(lhs, univ)
        value_bit == BitAnd(BitOr(lhs, rhs), val)
        value_mask == Shr(BitNot(univ_bit), 4)
    IN  BitOr(univ_bit, BitAnd(value_bit, value_mask))

\* The byte computed by bitor with the mask shifted by three bits, not four.
bitor_byte_mask_shift_three(lhs, rhs) ==
    LET univ == ToByte("UniversalChange")
        val == ToByte("ValuesChange")
        univ_bit == BitAnd(BitOr(lhs, rhs), univ)
        value_bit == BitAnd(BitOr(lhs, rhs), val)
        value_mask == Shr(BitNot(univ_bit), 3)
    IN  BitOr(univ_bit, BitAnd(value_bit, value_mask))

\* The byte `res` computed by BitOr::bitor for IntVariableState.
bitor_byte(lhs, rhs) ==
    LET univ == ToByte("UniversalChange")
        val == ToByte("ValuesChange")
        univ_bit == BitAnd(BitOr(lhs, rhs), univ)
        value_bit == BitAnd(BitOr(lhs, rhs), val)
        value_mask == Shr(BitNot(univ_bit), 4)
    IN  BitOr(univ_bit, BitAnd(value_bit, value_mask))

\* self | rhs
bitor(self, rhs) == FromByte(bitor_byte(ToByte(self), ToByte(rhs)))

\* Mergeable::merge
merge(self, rhs) == bitor(self, rhs)

\* Subsumed::is_subsumed_under for IntVariableState
is_subsumed_under(self, val) ==
    CASE self = "MaxBoundChange" -> val = "MaxBoundChange"
      [] self = "MinBoundChange" -> val = "MinBoundChange"
      [] self = "BoundsChange" -> val # "ValuesChange" /\ val # "NoChange"
      [] self = "ValuesChange" -> val # "NoChange"
      [] self = "NoChange" -> TRUE
      [] OTHER -> FALSE

\* The table asserted by the test test_op_or: row | column.
test_op_or ==
    [NoChange |->
        [MaxBoundChange |-> "MaxBoundChange", MinBoundChange |-> "MinBoundChange",
         BoundsChange |-> "BoundsChange", ValuesChange |-> "ValuesChange",
         NoChange |-> "NoChange", UniversalChange |-> "UniversalChange",
         UniversalError |-> "UniversalError"],
     MaxBoundChange |->
        [MaxBoundChange |-> "MaxBoundChange", MinBoundChange |-> "BoundsChange",
         BoundsChange |-> "BoundsChange", ValuesChange |-> "ValuesChange",
         NoChange |-> "MaxBoundChange", UniversalChange |-> "UniversalError",
         UniversalError |-> "UniversalError"],
     MinBoundChange |->
        [MaxBoundChange |-> "BoundsChange", MinBoundChange |-> "MinBoundChange",
         BoundsChange |-> "BoundsChange", ValuesChange |-> "ValuesChange",
         NoChange |-> "MinBoundChange", UniversalChange |-> "UniversalError",
         UniversalError |-> "UniversalError"],
     BoundsChange |->
        [MaxBoundChange |-> "BoundsChange", MinBoundChange |-> "BoundsChange",
         BoundsChange |-> "BoundsChange", ValuesChange |-> "ValuesChange",
         NoChange |-> "BoundsChange", UniversalChange |-> "UniversalError",
         UniversalError |-> "UniversalError"],
     ValuesChange |->
        [MaxBoundChange |-> "ValuesChange", MinBoundChange |-> "ValuesChange",
         BoundsChange |-> "ValuesChange", ValuesChange |-> "ValuesChange",
         NoChange |-> "ValuesChange", UniversalChange |-> "UniversalError",
         UniversalError |-> "UniversalError"],
     UniversalChange |->
        [MaxBoundChange |-> "UniversalError", MinBoundChange |-> "UniversalError",
         BoundsChange |-> "UniversalError", ValuesChange |-> "UniversalError",
         NoChange |-> "UniversalChange", UniversalChange |-> "UniversalChange",
         UniversalError |-> "UniversalError"],
     UniversalError |->
        [MaxBoundChange |-> "UniversalError", MinBoundChange |-> "UniversalError",
         BoundsChange |-> "UniversalError", ValuesChange |-> "UniversalError",
         NoChange |-> "UniversalError", UniversalChange |-> "UniversalError",
         UniversalError |-> "UniversalError"]]

\* Two classifications are chosen; then `|`, merge or is_subsumed_under is
\* applied to them.
InitAlgebra ==
    /\ dom = <<<<>>, <<>>>>
    /\ last = NoCall
    /\ sink = <<>>
    /\ app \in {[fn |-> "operands", a |-> a, b |-> b] : a \in IntVariableState, b \in IntVariableState}

ApplyBitOr ==
    /\ app.fn = "operands"
    /\ app' = [fn |-> "bitor", a |-> app.a, b |-> app.b, out |-> bitor(app.a, app.b)]
    /\ UNCHANGED <<dom, last, sink>>

ApplyMerge ==
    /\ app.fn = "operands"
    /\ app' = [fn |-> "merge", a |-> app.a, b |-> app.b, out |-> merge(app.a, app.b)]
    /\ UNCHANGED <<dom, last, sink>>

ApplyIsSubsumedUnder ==
    /\ app.fn = "operands"
    /\ app' = [fn |-> "is_subsumed_under", a |-> app.a, b |-> app.b,
               out |-> is_subsumed_under(app.a, app.b)]
    /\ UNCHANGED <<dom, last, sink>>

NextAlgebra == ApplyBitOr \/ ApplyMerge \/ ApplyIsSubsumedUnder

SpecAlgebra == InitAlgebra /\ [][NextAlgebra]_vars

\* `|` or merge has been applied.
Merged == app.fn \in {"bitor", "merge"}

\* C12: the merge is commutative and has NoChange as identity:
\* merge(a, b) = merge(b, a), and merge(NoChange, x) = merge(x, NoChange) = x.
C12_MergeCommutativeIdentity ==
    Merged =>
        /\ app.out = bitor(app.b, app.a)
        /\ app.out = merge(app.b, app.a)
        /\ app.a = "NoChange" => app.out = app.b
        /\ app.b = "NoChange" => app.out = app.a

\* NoChange has been merged into a universal error, which came out unchanged.
C12_Witness ==
    /\ app.fn = "merge"
    /\ app.a = "UniversalError"
    /\ app.b = "NoChange"
    /\ app.out = "UniversalError"

\* C13: for each of the 49 ordered pairs the bit-manipulating merge equals
\* the explicit table: Min with Max gives BoundsChange; Min, Max or Bounds
\* with ValuesChange gives ValuesChange; x with x gives x; UniversalChange
\* with anything but NoChange or UniversalChange gives UniversalError;
\* UniversalError with anything gives UniversalError.
C13_MergeTruthTable ==
    Merged =>
        /\ app.out = test_op_or[app.a][app.b]
        /\ {app.a, app.b} = {"MinBoundChange", "MaxBoundChange"} => app.out = "BoundsChange"
        /\ (app.a \in {"MinBoundChange", "MaxBoundChange", "BoundsChange"}
                /\ app.b = "ValuesChange") => app.out = "ValuesChange"
        /\ (app.b \in {"MinBoundChange", "MaxBoundChange", "BoundsChange"}
                /\ app.a = "ValuesChange") => app.out = "ValuesChange"
        /\ app.a = app.b => app.out = app.a
        /\ ("UniversalChange" \in {app.a, app.b}
                /\ {app.a, app.b} \cap {"NoChange", "UniversalChange"} # {app.a, app.b})
            => app.out = "UniversalError"
        /\ "UniversalError" \in {app.a, app.b} => app.out = "UniversalError"

\* A universal change has been mixed with a bound change.
C13_Witness ==
    /\ app.fn = "bitor"
    /\ app.a = "UniversalChange"
    /\ app.b = "MinBoundChange"
    /\ app.out = "UniversalError"

\* C14: MinBoundChange and MaxBoundChange are each subsumed under themselves
\* and under BoundsChange and under nothing else, BoundsChange is subsumed
\* under ValuesChange, and ValuesChange is subsumed under NoChange.
C14_SubsumptionChain ==
    app.fn = "is_subsumed_under" =>
        /\ app.a \in {"MinBoundChange", "MaxBoundChange"} =>
            (app.out <=> app.b \in {app.a, "BoundsChange"})
        /\ (app.a = "BoundsChange" /\ app.b = "ValuesChange") => app.out
        /\ (app.a = "ValuesChange" /\ app.b = "NoChange") => app.out

\* C15: is_subsumed_under is a partial order over the seven
\* classifications: reflexive, antisymmetric and transitive.
C15_SubsumptionPartialOrder ==
    app.fn = "is_subsumed_under" =>
        /\ app.a = app.b => app.out
        /\ (app.out /\ is_subsumed_under(app.b, app.a)) => app.a = app.b
        /\ \A c \in IntVariableState :
            (app.out /\ is_subsumed_under(app.b, c)) => is_subsumed_under(app.a, c)

(* ------------------- constructors at the type's edge ------------------- *)

\* Longest value list handed to new_from_values when compared with
\* new_from_range.
MaxCtorLen == 4

\* Range bounds handed to new_from_range / try_new: every value of T.
CtorValues == TMin..TMax

\* Elements of the lists handed to new_from_values: the small values and the
\* two greatest values of T.
EdgeValues == Values \cup {TMax - 1, TMax}

CtorLists == UNION {[1..n -> EdgeValues] : n \in 0..MaxCtorLen}

\* T's `+` overflows: a panic in a build with overflow checks, a wrap-around
\* in a build without.
AddOverflows(x, y) == x + y > TMax \/ x + y < TMin

\* new_from_range / try_new in a build with (overflow_checks) or without
\* overflow checks: `max + one` is evaluated once min <= max is known, and
\* `val + one` stays at or below it.
new_from_range_in_build(lo, hi, overflow_checks) ==
    IF lo <= hi /\ overflow_checks /\ AddOverflows(hi, 1)
    THEN [panic |-> TRUE, some |-> FALSE, domain |-> <<>>]
    ELSE [panic |-> FALSE, some |-> new_from_range(lo, hi).some,
          domain |-> new_from_range(lo, hi).domain]

try_new_in_build(lo, hi, overflow_checks) ==
    IF lo <= hi /\ overflow_checks /\ AddOverflows(hi, 1)
    THEN [panic |-> TRUE, some |-> FALSE, domain |-> <<>>]
    ELSE [panic |-> FALSE, some |-> try_new(lo, hi).some, domain |-> try_new(lo, hi).domain]

\* The inputs of one constructor call are chosen; then it is called.
InitConstruct ==
    /\ dom = <<<<>>, <<>>>>
    /\ last = NoCall
    /\ sink = <<>>
    /\ app \in {[fn |-> "range", lo |-> lo, hi |-> hi] : lo \in CtorValues, hi \in CtorValues}
               \cup {[fn |-> "values", values |-> l] : l \in CtorLists}

ApplyNewFromRange(overflow_checks) ==
    /\ app.fn = "range"
    /\ app' = [fn |-> "new_from_range", lo |-> app.lo, hi |-> app.hi,
               out |-> new_from_range_in_build(app.lo, app.hi, overflow_checks)]
    /\ UNCHANGED <<dom, last, sink>>

ApplyTryNew(overflow_checks) ==
    /\ app.fn = "range"
    /\ app' = [fn |-> "try_new", lo |-> app.lo, hi |-> app.hi,
               out |-> try_new_in_build(app.lo, app.hi, overflow_checks)]
    /\ UNCHANGED <<dom, last, sink>>

ApplyNewFromValues ==
    /\ app.fn = "values"
    /\ app' = [fn |-> "new_from_values", values |-> app.values,
               out |-> new_from_values(app.values)]
    /\ UNCHANGED <<dom, last, sink>>

NextConstruct ==
    \/ \E overflow_checks \in BOOLEAN : ApplyNewFromRange(overflow_checks)
    \/ \E overflow_checks \in BOOLEAN : ApplyTryNew(overflow_checks)
    \/ ApplyNewFromValues

SpecConstruct == InitConstruct /\ [][NextConstruct]_vars

\* The closed interval lo..hi as an ascending sequence.
Interval(lo, hi) == [i \in 1..(hi - lo + 1) |-> lo + i - 1]

\* C16: at a fixed-width integer type new_from_range(min, max) and
\* try_new(min, max) return nothing exactly when min > max, and for every
\* min <= max, max = T::MAX included, a non-empty domain that is exactly
\* min..max, so it contains min and max.
C16_RangeIsClosedInterval ==
    app.fn \in {"new_from_range", "try_new"} =>
        /\ ~app.out.panic
        /\ app.out.some <=> app.lo <= app.hi
        /\ app.lo <= app.hi =>
            /\ app.out.domain # <<>>
            /\ app.out.domain = Interval(app.lo, app.hi)
            /\ app.lo \in ToSet(app.out.domain)
            /\ app.hi \in ToSet(app.out.domain)

\* C17: new_from_values returns nothing exactly for an empty input, and for
\* a <= b and a sequence, in any order and with any repetitions, whose
\* elements are exactly a..b, new_from_values(sequence) == new_from_range(a, b).
C17_ValuesEqualRange ==
    app.fn = "new_from_values" =>
        /\ app.out.some <=> app.values # <<>>
        /\ app.values # <<>> =>
            LET a == SetMin(ToSet(app.values))
                b == SetMax(ToSet(app.values))
            IN  ToSet(app.values) = a..b =>
                    \A overflow_checks \in BOOLEAN :
                        LET range == new_from_range_in_build(a, b, overflow_checks)
                        IN  /\ ~range.panic
                            /\ range.some
                            /\ range.domain = app.out.domain

(* ------------ notification-aware variant: CruspIntVarValues ------------- *)

\* A VariableObserver: what it has been pushed so far, in order, and how it
\* answers.  accept: push_change answers Ok(the state pushed), otherwise
\* Err(DomainWipeout).  keep: push_error answers Err(the error pushed),
\* otherwise Ok(NoChange).
Observer(accept, keep) == [log |-> <<>>, accept |-> accept, keep |-> keep]

Observers == {Observer(accept, keep) : accept \in BOOLEAN, keep \in BOOLEAN}

\* The default observer: it accepts every change and keeps every error.
NoOpObserver == Observer(TRUE, TRUE)

\* VariableObserver::push_change(id, state) -> Result<VState, VariableError>
push_change(o, id, state) ==
    [tag |-> IF o.accept THEN "Ok" ELSE "Err",
     st |-> IF o.accept THEN <<state>> ELSE <<"DomainWipeout">>,
     o |-> [o EXCEPT !.log = Append(@, [id |-> id, kind |-> "change", what |-> state])]]

\* VariableObserver::push_error(id, error) -> Result<VState, VariableError>
push_error(o, id, error) ==
    [tag |-> IF o.keep THEN "Err" ELSE "Ok",
     st |-> IF o.keep THEN <<error>> ELSE <<"NoChange">>,
     o |-> [o EXCEPT !.log = Append(@, [id |-> id, kind |-> "error", what |-> error])]]

\* A call on one domain returns what the observer answered to its push p.
Forward(d, p) == [domain |-> d, tag |-> p.tag, st |-> p.st, o |-> p.o]

\* A call on one domain returns r without pushing anything.
Silent(r, o) == [domain |-> r.domain, tag |-> r.tag, st |-> r.st, o |-> o]

\* A call on two domains returns tag and st.
Pair(a, b, tag, st, o) == [self |-> a, value |-> b, tag |-> tag, st |-> st, o |-> o]

\* CruspIntVarValues::domain_change, d being the domain after the pruning.
observer_domain_change(d, id, o, prev_min, prev_max, prev_size) ==
    IF d = <<>> THEN Forward(invalidate(d), push_error(o, id, "DomainWipeout"))
    ELSE IF size(d) = prev_size THEN Silent(Ok(d, "NoChange"), o)
    ELSE IF unchecked_min(d) # prev_min \/ unchecked_max(d) # prev_max
         THEN Forward(d, push_change(o, id, "BoundsChange"))
    ELSE Forward(d, push_change(o, id, "ValuesChange"))

observer_set_value(d, id, o, v) ==
    IF d = <<>> THEN Silent(Panic(d), o)
    ELSE IF unchecked_min(d) > v \/ unchecked_max(d) < v
         THEN Forward(d, push_error(o, id, "DomainWipeout"))
    ELSE IF value(d) = Some(v) THEN Silent(Ok(d, "NoChange"), o)
    ELSE IF binary_search(d, v) # None THEN Forward(<<v>>, push_change(o, id, "BoundsChange"))
    ELSE Forward(invalidate(d), push_error(o, id, "DomainWipeout"))

observer_strict_upperbound(d, id, o, ub) ==
    IF d = <<>> THEN Silent(Panic(d), o)
    ELSE IF unchecked_max(d) < ub THEN Silent(Ok(d, "NoChange"), o)
    ELSE IF unchecked_min(d) >= ub THEN Forward(d, push_error(o, id, "DomainWipeout"))
    ELSE Forward(SubSeq(d, 1, RPositionLt(d, ub)), push_change(o, id, "BoundsChange"))

observer_weak_upperbound(d, id, o, ub) ==
    IF d = <<>> THEN Silent(Panic(d), o)
    ELSE IF unchecked_max(d) <= ub THEN Silent(Ok(d, "NoChange"), o)
    ELSE IF unchecked_min(d) > ub THEN Forward(d, push_error(o, id, "DomainWipeout"))
    ELSE Forward(SubSeq(d, 1, RPositionLe(d, ub)), push_change(o, id, "BoundsChange"))

\* The notification-aware strict_lowerbound cutting with >= instead of >.
observer_strict_lowerbound_cuts_weakly(d, id, o, lb) ==
    IF d = <<>> THEN Silent(Panic(d), o)
    ELSE IF unchecked_min(d) > lb THEN Silent(Ok(d, "NoChange"), o)
    ELSE IF unchecked_max(d) <= lb THEN Forward(d, push_error(o, id, "DomainWipeout"))
    ELSE Forward(SubSeq(d, PositionGe(d, lb), Len(d)), push_change(o, id, "BoundsChange"))

observer_strict_lowerbound(d, id, o, lb) ==
    IF d = <<>> THEN Silent(Panic(d), o)
    ELSE IF unchecked_min(d) > lb THEN Silent(Ok(d, "NoChange"), o)
    ELSE IF unchecked_max(d) <= lb THEN Forward(d, push_error(o, id, "DomainWipeout"))
    ELSE Forward(SubSeq(d, PositionGt(d, lb), Len(d)), push_change(o, id, "BoundsChange"))

observer_weak_lowerbound(d, id, o, lb) ==
    IF d = <<>> THEN Silent(Panic(d), o)
    ELSE IF unchecked_min(d) >= lb THEN Silent(Ok(d, "NoChange"), o)
    ELSE IF unchecked_max(d) < lb THEN Forward(d, push_error(o, id, "DomainWipeout"))
    ELSE Forward(SubSeq(d, PositionGe(d, lb), Len(d)), push_change(o, id, "BoundsChange"))

\* EqualDomainObserver::equal: the observer's answers are dropped (`let _`).
observer_equal(self, val, id_self, id_value, o) ==
    LET domain == SetToVec(ToSet(self) \cap ToSet(val))
    IN  IF domain = <<>>
        THEN LET o1 == push_error(o, id_self, "DomainWipeout").o
                 o2 == push_error(o1, id_value, "DomainWipeout").o
             IN  Pair(invalidate(self), invalidate(val), "Err", <<"DomainWipeout">>, o2)
        ELSE LET ok_self == check_change(self, domain)
                 ok_value == check_change(val, domain)
                 o1 == IF ok_self # "NoChange" THEN push_change(o, id_self, ok_self).o ELSE o
                 o2 == IF ok_value # "NoChange" THEN push_change(o1, id_value, ok_value).o ELSE o1
             IN  Pair(domain, domain, "Ok", <<ok_self, ok_value>>, o2)

observer_remove_value(d, id, o, v) ==
    IF d = <<>> THEN Silent(Panic(d), o)
    ELSE IF unchecked_min(d) > v /\ unchecked_max(d) < v THEN Silent(Ok(d, "NoChange"), o)
    ELSE LET found_value == binary_search(d, v)
         IN  IF found_value = None THEN Silent(Ok(d, "NoChange"), o)
             ELSE LET after == RemoveAt(d, found_value[1])
                  IN  IF size(after) = 0
                      THEN Forward(after, push_error(o, id, "DomainWipeout"))
                      ELSE IF min(after) # min(d) \/ max(after) # max(d)
                           THEN Forward(after, push_change(o, id, "BoundsChange"))
                      ELSE Forward(after, push_change(o, id, "ValuesChange"))

\* EqualDomainObserver::not_equal: `?` returns remove_value's failure at once;
\* the second branch pushes remove_value's result once more and drops the
\* answer.
observer_not_equal(self, val, id_self, id_value, o) ==
    IF value(self) # None
    THEN LET r == observer_remove_value(val, id_value, o, value(self)[1])
         IN  IF r.tag = "Ok" THEN Pair(self, r.domain, "Ok", <<"NoChange", r.st[1]>>, r.o)
             ELSE Pair(self, r.domain, r.tag, r.st, r.o)
    ELSE IF value(val) # None
    THEN LET r == observer_remove_value(self, id_self, o, value(val)[1])
         IN  IF r.tag = "Ok"
             THEN Pair(r.domain, val, "Ok", <<r.st[1], "NoChange">>,
                       push_change(r.o, id_self, r.st[1]).o)
             ELSE Pair(r.domain, val, r.tag, r.st, r.o)
    ELSE Pair(self, val, "Ok", <<"NoChange", "NoChange">>, o)

observer_remove_if(d, id, o, p) ==
    IF d = <<>> THEN Silent(Panic(d), o)
    ELSE observer_domain_change(SelectSeq(d, LAMBDA v : ~pred(p, v)), id, o,
                                unchecked_min(d), unchecked_max(d), size(d))

observer_retains_if(d, id, o, p) ==
    IF d = <<>> THEN Silent(Panic(d), o)
    ELSE observer_domain_change(SelectSeq(d, LAMBDA v : pred(p, v)), id, o,
                                unchecked_min(d), unchecked_max(d), size(d))

observer_in_sorted_values(d, id, o, values) ==
    LET domain == SetToVec(ToSet(d) \cap ToSet(values))
    IN  IF domain = <<>> THEN Forward(invalidate(d), push_error(o, id, "DomainWipeout"))
        ELSE IF check_change(d, domain) = "NoChange" THEN Silent(Ok(domain, "NoChange"), o)
        ELSE Forward(domain, push_change(o, id, check_change(d, domain)))

observer_in_values(d, id, o, values) == observer_in_sorted_values(d, id, o, sort(values))

\* BoundedDomainObserver::less_than: value.unchecked_max() is read before
\* self is bounded, self.unchecked_min() after; `?` returns a failure at once.
less_than(self, val, id_self, id_value, o) ==
    IF val = <<>> THEN Pair(self, val, "Panic", <<>>, o)
    ELSE LET s == observer_strict_upperbound(self, id_self, o, unchecked_max(val))
         IN  IF s.tag # "Ok" THEN Pair(s.domain, val, s.tag, s.st, s.o)
             ELSE LET v == observer_strict_lowerbound(val, id_value, s.o, unchecked_min(s.domain))
                  IN  IF v.tag # "Ok" THEN Pair(s.domain, v.domain, v.tag, v.st, v.o)
                      ELSE Pair(s.domain, v.domain, "Ok", <<s.st[1], v.st[1]>>, v.o)

\* BoundedDomainObserver::less_or_equal_than
less_or_equal_than(self, val, id_self, id_value, o) ==
    IF val = <<>> THEN Pair(self, val, "Panic", <<>>, o)
    ELSE LET s == observer_weak_upperbound(self, id_self, o, unchecked_max(val))
         IN  IF s.tag # "Ok" THEN Pair(s.domain, val, s.tag, s.st, s.o)
             ELSE LET v == observer_weak_lowerbound(val, id_value, s.o, unchecked_min(s.domain))
                  IN  IF v.tag # "Ok" THEN Pair(s.domain, v.domain, v.tag, v.st, v.o)
                      ELSE Pair(s.domain, v.domain, "Ok", <<s.st[1], v.st[1]>>, v.o)

\* BoundedDomainObserver::greater_than: value.unchecked_min() is read before
\* self is bounded, self.unchecked_max() after.
greater_than(self, val, id_self, id_value, o) ==
    IF val = <<>> THEN Pair(self, val, "Panic", <<>>, o)
    ELSE LET s == observer_strict_lowerbound(self, id_self, o, unchecked_min(val))
         IN  IF s.tag # "Ok" THEN Pair(s.domain, val, s.tag, s.st, s.o)
             ELSE LET v == observer_strict_upperbound(val, id_value, s.o, unchecked_max(s.domain))
                  IN  IF v.tag # "Ok" THEN Pair(s.domain, v.domain, v.tag, v.st, v.o)
                      ELSE Pair(s.domain, v.domain, "Ok", <<s.st[1], v.st[1]>>, v.o)

\* BoundedDomainObserver::greater_or_equal_than
greater_or_equal_than(self, val, id_self, id_value, o) ==
    IF val = <<>> THEN Pair(self, val, "Panic", <<>>, o)
    ELSE LET s == observer_weak_lowerbound(self, id_self, o, unchecked_min(val))
         IN  IF s.tag # "Ok" THEN Pair(s.domain, val, s.tag, s.st, s.o)
             ELSE LET v == observer_weak_upperbound(val, id_value, s.o, unchecked_max(s.domain))
                  IN  IF v.tag # "Ok" THEN Pair(s.domain, v.domain, v.tag, v.st, v.o)
                      ELSE Pair(s.domain, v.domain, "Ok", <<s.st[1], v.st[1]>>, v.o)

\* BoundedDomainObserver::equal_bounds_lazy: one pass of less_or_equal_than
\* and greater_or_equal_than, the classifications merged per side.
equal_bounds_lazy(self, val, id_self, id_value, o) ==
    LET le == less_or_equal_than(self, val, id_self, id_value, o)
    IN  IF le.tag # "Ok" THEN le
        ELSE LET ge == greater_or_equal_than(le.self, le.value, id_self, id_value, le.o)
             IN  IF ge.tag # "Ok" THEN ge
                 ELSE Pair(ge.self, ge.value, "Ok",
                           <<bitor(le.st[1], ge.st[1]), bitor(le.st[2], ge.st[2])>>, ge.o)

(* ------------- state machine of the notification-aware variant -------- *)

\* The variable stored in dom[i] has id i.  A call is handed an observer
\* with an empty log; sink is what the call has pushed to it.

\* A call on the one variable i returned r.
ObserverReturned1(name, i, v, vs, p, r) ==
    /\ dom' = [dom EXCEPT ![i] = r.domain]
    /\ last' = [op |-> name, var |-> i, val |-> v, vals |-> vs, pred |-> p,
                pre |-> dom, tag |-> r.tag, st |-> r.st]
    /\ sink' = r.o.log
    /\ UNCHANGED app

\* A call with self = variable i and value = variable 3 - i returned r.
ObserverReturned2(name, i, r) ==
    /\ dom' = [dom EXCEPT ![i] = r.self, ![3 - i] = r.value]
    /\ last' = [op |-> name, var |-> i, val |-> 0, vals |-> <<>>, pred |-> {},
                pre |-> dom, tag |-> r.tag, st |-> r.st]
    /\ sink' = r.o.log
    /\ UNCHANGED app

ObserverSetValue(i, o, v) ==
    Idle /\ ObserverReturned1("set_value", i, v, <<>>, {}, observer_set_value(dom[i], i, o, v))

ObserverStrictUpperbound(i, o, ub) ==
    Idle /\ ObserverReturned1("strict_upperbound", i, ub, <<>>, {},
                              observer_strict_upperbound(dom[i], i, o, ub))

ObserverWeakUpperbound(i, o, ub) ==
    Idle /\ ObserverReturned1("weak_upperbound", i, ub, <<>>, {},
                              observer_weak_upperbound(dom[i], i, o, ub))

ObserverStrictLowerbound(i, o, lb) ==
    Idle /\ ObserverReturned1("strict_lowerbound", i, lb, <<>>, {},
                              observer_strict_lowerbound(dom[i], i, o, lb))

ObserverWeakLowerbound(i, o, lb) ==
    Idle /\ ObserverReturned1("weak_lowerbound", i, lb, <<>>, {},
                              observer_weak_lowerbound(dom[i], i, o, lb))

ObserverEqual(i, o) ==
    Idle /\ ObserverReturned2("equal", i, observer_equal(dom[i], dom[3 - i], i, 3 - i, o))

ObserverNotEqual(i, o) ==
    Idle /\ ObserverReturned2("not_equal", i,
                              observer_not_equal(dom[i], dom[3 - i], i, 3 - i, o))

ObserverInValues(i, o, vs) ==
    Idle /\ ObserverReturned1("in_values", i, 0, vs, {}, observer_in_values(dom[i], i, o, vs))

ObserverInSortedValues(i, o, vs) ==
    Idle /\ ObserverReturned1("in_sorted_values", i, 0, vs, {},
                              observer_in_sorted_values(dom[i], i, o, vs))

ObserverRemoveValue(i, o, v) ==
    Idle /\ ObserverReturned1("remove_value", i, v, <<>>, {},
                              observer_remove_value(dom[i], i, o, v))

ObserverRemoveIf(i, o, p) ==
    Idle /\ ObserverReturned1("remove_if", i, 0, <<>>, p, observer_remove_if(dom[i], i, o, p))

ObserverRetainsIf(i, o, p) ==
    Idle /\ ObserverReturned1("retains_if", i, 0, <<>>, p, observer_retains_if(dom[i], i, o, p))

LessThan(i, o) ==
    Idle /\ ObserverReturned2("less_than", i, less_than(dom[i], dom[3 - i], i, 3 - i, o))

LessOrEqualThan(i, o) ==
    Idle /\ ObserverReturned2("less_or_equal_than", i,
                              less_or_equal_than(dom[i], dom[3 - i], i, 3 - i, o))

GreaterThan(i, o) ==
    Idle /\ ObserverReturned2("greater_than", i, greater_than(dom[i], dom[3 - i], i, 3 - i, o))

GreaterOrEqualThan(i, o) ==
    Idle /\ ObserverReturned2("greater_or_equal_than", i,
                              greater_or_equal_than(dom[i], dom[3 - i], i, 3 - i, o))

EqualBoundsLazy(i, o) ==
    Idle /\ ObserverReturned2("equal_bounds_lazy", i,
                              equal_bounds_lazy(dom[i], dom[3 - i], i, 3 - i, o))

\* The caller takes the result and the observer's log and goes on.
ObserverResume ==
    /\ ~Idle
    /\ last.tag # "Panic"
    /\ last' = NoCall
    /\ sink' = <<>>
    /\ UNCHANGED <<dom, app>>

NextObserver ==
    \/ \E i \in Vars, o \in Observers, v \in ArgValues : ObserverSetValue(i, o, v)
    \/ \E i \in Vars, o \in Observers, ub \in ArgValues : ObserverStrictUpperbound(i, o, ub)
    \/ \E i \in Vars, o \in Observers, ub \in ArgValues : ObserverWeakUpperbound(i, o, ub)
    \/ \E i \in Vars, o \in Observers, lb \in ArgValues : ObserverStrictLowerbound(i, o, lb)
    \/ \E i \in Vars, o \in Observers, lb \in ArgValues : ObserverWeakLowerbound(i, o, lb)
    \/ \E i \in Vars, o \in Observers : ObserverEqual(i, o)
    \/ \E i \in Vars, o \in Observers : ObserverNotEqual(i, o)
    \/ \E i \in Vars, o \in Observers, vs \in ValueLists : ObserverInValues(i, o, vs)
    \/ \E i \in Vars, o \in Observers, vs \in SortedLists : ObserverInSortedValues(i, o, vs)
    \/ \E i \in Vars, o \in Observers, v \in ArgValues : ObserverRemoveValue(i, o, v)
    \/ \E i \in Vars, o \in Observers, p \in SUBSET Values : ObserverRemoveIf(i, o, p)
    \/ \E i \in Vars, o \in Observers, p \in SUBSET Values : ObserverRetainsIf(i, o, p)
    \/ \E i \in Vars, o \in Observers : LessThan(i, o)
    \/ \E i \in Vars, o \in Observers : LessOrEqualThan(i, o)
    \/ \E i \in Vars, o \in Observers : GreaterThan(i, o)
    \/ \E i \in Vars, o \in Observers : GreaterOrEqualThan(i, o)
    \/ \E i \in Vars, o \in Observers : EqualBoundsLazy(i, o)
    \/ ObserverResume

SpecObserver == Init /\ [][NextObserver]_vars

\* The same program with the default observer handed to every call.
NextDefaultObserver ==
    \/ \E i \in Vars, v \in ArgValues : ObserverSetValue(i, NoOpObserver, v)
    \/ \E i \in Vars, ub \in ArgValues : ObserverStrictUpperbound(i, NoOpObserver, ub)
    \/ \E i \in Vars, ub \in ArgValues : ObserverWeakUpperbound(i, NoOpObserver, ub)
    \/ \E i \in Vars, lb \in ArgValues : ObserverStrictLowerbound(i, NoOpObserver, lb)
    \/ \E i \in Vars, lb \in ArgValues : ObserverWeakLowerbound(i, NoOpObserver, lb)
    \/ \E i \in Vars : ObserverEqual(i, NoOpObserver)
    \/ \E i \in Vars : ObserverNotEqual(i, NoOpObserver)
    \/ \E i \in Vars, vs \in ValueLists : ObserverInValues(i, NoOpObserver, vs)
    \/ \E i \in Vars, vs \in SortedLists : ObserverInSortedValues(i, NoOpObserver, vs)
    \/ \E i \in Vars, v \in ArgValues : ObserverRemoveValue(i, NoOpObserver, v)
    \/ \E i \in Vars, p \in SUBSET Values : ObserverRemoveIf(i, NoOpObserver, p)
    \/ \E i \in Vars, p \in SUBSET Values : ObserverRetainsIf(i, NoOpObserver, p)
    \/ \E i \in Vars : LessThan(i, NoOpObserver)
    \/ \E i \in Vars : LessOrEqualThan(i, NoOpObserver)
    \/ \E i \in Vars : GreaterThan(i, NoOpObserver)
    \/ \E i \in Vars : GreaterOrEqualThan(i, NoOpObserver)
    \/ \E i \in Vars : EqualBoundsLazy(i, NoOpObserver)
    \/ ObserverResume

SpecDefaultObserver == Init /\ [][NextDefaultObserver]_vars

\* The pushes of the call that has just returned that carry variable i's id.
PushesOf(i) == SelectSeq(sink, LAMBDA e : e.id = i)

\* The notification-aware operations of the prunable, assignable, ordered and
\* equal capabilities.
ObserverOps ==
    {"set_value", "equal", "not_equal", "in_values", "remove_value", "remove_if", "retains_if"}
    \cup BoundOps

\* C18: a notification-aware operation (set_value, the four bound operations,
\* equal, not_equal, in_values, remove_value, remove_if, retains_if) never
\* pushes NoChange, pushes at most once per variable and call, pushes exactly
\* once with its id for a variable whose domain it changed, and every
\* classification other than NoChange that it returns for a variable is the
\* one it pushed with that variable's id.
C18_ForwardsOncePerChange ==
    (last.op \in ObserverOps /\ last.tag # "Panic") =>
        /\ \A k \in DOMAIN sink : ~(sink[k].kind = "change" /\ sink[k].what = "NoChange")
        /\ \A i \in Vars :
            /\ Len(PushesOf(i)) <= 1
            /\ dom[i] # last.pre[i] => Len(PushesOf(i)) = 1
        /\ last.tag = "Ok" =>
            \A k \in DOMAIN last.st :
                last.st[k] # "NoChange" =>
                    PushesOf(IF k = 1 THEN Self ELSE Other)
                        = <<[id |-> IF k = 1 THEN Self ELSE Other, kind |-> "change",
                             what |-> last.st[k]]>>

\* C19: a notification-aware operation that pushes an error to its observer
\* returns Err(DomainWipeout), whatever the observer answers.
C19_WipeoutReachesCaller ==
    (last.op \in ObserverOps /\ \E k \in DOMAIN sink : sink[k].kind = "error") =>
        /\ last.tag = "Err"
        /\ last.st = <<"DomainWipeout">>

\* C20: for non-empty self and value, whatever the observer,
\* less_than fails with DomainWipeout exactly when min(self) >= max(value);
\* otherwise it leaves in self the values below max(value) and in value the
\* values above min(self), and returns the classifications of
\* strict_upperbound(self, max(value)) and strict_lowerbound(value, min(self)).
\* less_or_equal_than is the same with the weak comparisons and the weak
\* bound operations, failing exactly when min(self) > max(value).
C20_Precedence ==
    (last.op \in {"less_than", "less_or_equal_than"} /\ PreSelf # {} /\ PreOther # {}) =>
        LET strict == last.op = "less_than"
            lo == SetMin(PreSelf)
            hi == SetMax(PreOther)
            on_self == IF strict THEN strict_upperbound(last.pre[Self], hi)
                       ELSE weak_upperbound(last.pre[Self], hi)
            on_value == IF strict THEN strict_lowerbound(last.pre[Other], lo)
                        ELSE weak_lowerbound(last.pre[Other], lo)
        IN  /\ last.tag \in {"Ok", "Err"}
            /\ last.tag = "Err" <=> IF strict THEN lo >= hi ELSE lo > hi
            /\ last.tag = "Err" => last.st = <<"DomainWipeout">>
            /\ last.tag = "Ok" =>
                /\ ToSet(dom[Self]) = {v \in PreSelf : IF strict THEN v < hi ELSE v <= hi}
                /\ ToSet(dom[Other]) = {v \in PreOther : IF strict THEN v > lo ELSE v >= lo}
                /\ last.st = <<on_self.st[1], on_value.st[1]>>

\* C21: when equal_bounds_lazy returns successfully on two non-empty
\* domains, min(self) = min(value) and max(self) = max(value); and it fails
\* with DomainWipeout when the two domains have no common value.
C21_EqualBoundsLazy ==
    (last.op = "equal_bounds_lazy" /\ PreSelf # {} /\ PreOther # {}) =>
        /\ last.tag \in {"Ok", "Err"}
        /\ last.tag = "Ok" =>
            /\ min(dom[Self]) = min(dom[Other])
            /\ max(dom[Self]) = max(dom[Other])
        /\ PreSelf \cap PreOther = {} =>
            /\ last.tag = "Err"
            /\ last.st = <<"DomainWipeout">>

(* ------------------- arrays of variables (lib.rs) ----------------------- *)

\* Greatest number of variables handed to an array constructor.
MaxArrayLen == 3

\* usize positions handed to get / get_mut: inside and beyond every array.
Positions == 0..(MaxArrayLen + 1)

\* Vec::get(position): positions count from 0.
VecGet(v, position) == IF position < Len(v) THEN Some(v[position + 1]) ELSE None

\* ArrayOfVars::new(len, var): vec![var; len].
ArrayOfVars_new(len, var) == Some([variables |-> [k \in 1..len |-> var]])

\* ArrayOfRefs::new(variables): the pointers are stored as given.  A *mut Var
\* is the index in dom of the variable it points to.
ArrayOfRefs_new(variables) == Some([variables |-> variables])

\* ArrayOfVariables::len
array_len(array) == Len(array.variables)

\* ArrayOfVariables::get / get_mut for ArrayOfVars
ArrayOfVars_get(array, position) == VecGet(array.variables, position)

\* ArrayOfVariables::get / get_mut for ArrayOfRefs: the pointer found is
\* dereferenced.
ArrayOfRefs_get(array, position, heap) ==
    IF VecGet(array.variables, position) = None THEN None
    ELSE Some(heap[VecGet(array.variables, position)[1]])

PointerLists == UNION {[1..n -> Vars] : n \in 0..MaxArrayLen}

\* The arguments of one array constructor are chosen; the array is built and
\* then read at some position.
InitArray ==
    /\ dom \in {<<a, b>> : a \in {new_from_range(0, 1).domain}, b \in Constructed}
    /\ last = NoCall
    /\ sink = <<>>
    /\ app \in {[fn |-> "vars", len |-> n, var |-> d] : n \in 0..MaxArrayLen, d \in Constructed}
               \cup {[fn |-> "refs", variables |-> l] : l \in PointerLists}

ApplyArrayOfVarsNew ==
    /\ app.fn = "vars"
    /\ app' = [fn |-> "ArrayOfVars::new", n |-> app.len,
               expected |-> [k \in 1..app.len |-> app.var],
               out |-> ArrayOfVars_new(app.len, app.var)]
    /\ UNCHANGED <<dom, last, sink>>

ApplyArrayOfRefsNew ==
    /\ app.fn = "refs"
    /\ app' = [fn |-> "ArrayOfRefs::new", n |-> Len(app.variables),
               expected |-> [k \in 1..Len(app.variables) |-> dom[app.variables[k]]],
               out |-> ArrayOfRefs_new(app.variables)]
    /\ UNCHANGED <<dom, last, sink>>

\* get(position) or get_mut(position) on the array just built.
ArrayGet(position, method) ==
    /\ app.fn \in {"ArrayOfVars::new", "ArrayOfRefs::new"}
    /\ app.out # None
    /\ app' = [fn |-> method, n |-> app.n, expected |-> app.expected, out |-> app.out,
               position |-> position,
               got |-> IF app.fn = "ArrayOfVars::new"
                       THEN ArrayOfVars_get(app.out[1], position)
                       ELSE ArrayOfRefs_get(app.out[1], position, dom)]
    /\ UNCHANGED <<dom, last, sink>>

NextArray ==
    \/ ApplyArrayOfVarsNew
    \/ ApplyArrayOfRefsNew
    \/ \E position \in Positions, method \in {"get", "get_mut"} : ArrayGet(position, method)

SpecArray == InitArray /\ [][NextArray]_vars

\* C22: ArrayOfVars::new and ArrayOfRefs::new return None when the number of
\* variables is zero and otherwise an array whose len() is that number;
\* get(i) / get_mut(i) return the i-th variable for i < len() and None for
\* i >= len().
C22_ArrayConstruction ==
    /\ app.fn \in {"ArrayOfVars::new", "ArrayOfRefs::new"} =>
        /\ app.out = None <=> app.n = 0
        /\ app.out # None => array_len(app.out[1]) = app.n
    /\ app.fn \in {"get", "get_mut"} =>
        /\ app.position < array_len(app.out[1]) =>
               app.got = Some(app.expected[app.position + 1])
        /\ app.position >= array_len(app.out[1]) => app.got = None

(* --------------------------- BoolVar (bool_var.rs) ---------------------- *)

\* Number of BoolVars the program holds.
NumBools == 3

BoolDomain == {"True", "False", "Both", "None"}

\* BoolVar::new
BoolVar_new == Some([domain |-> "Both", state |-> "NoChange"])

\* set_value leaving the domain as it is when it fails.
BoolVar_set_value_keeps_domain(self, val) ==
    IF self.domain = "Both"
    THEN [var |-> [self EXCEPT !.domain = IF val THEN "True" ELSE "False"],
          tag |-> "Ok", st |-> <<"BoundsChange">>]
    ELSE IF self.domain = "True" /\ val THEN [var |-> self, tag |-> "Ok", st |-> <<"NoChange">>]
    ELSE IF self.domain = "False" /\ ~val THEN [var |-> self, tag |-> "Ok", st |-> <<"NoChange">>]
    ELSE [var |-> self, tag |-> "Err", st |-> <<"DomainWipeout">>]

\* AssignableDomain::set_value for BoolVar
BoolVar_set_value(self, val) ==
    IF self.domain = "Both"
    THEN [var |-> [self EXCEPT !.domain = IF val THEN "True" ELSE "False"],
          tag |-> "Ok", st |-> <<"BoundsChange">>]
    ELSE IF self.domain = "True" /\ val THEN [var |-> self, tag |-> "Ok", st |-> <<"NoChange">>]
    ELSE IF self.domain = "False" /\ ~val THEN [var |-> self, tag |-> "Ok", st |-> <<"NoChange">>]
    ELSE [var |-> [self EXCEPT !.domain = "None"], tag |-> "Err", st |-> <<"DomainWipeout">>]

\* Variable::is_affected for BoolVar
BoolVar_is_affected(self) == self.domain = "True" \/ self.domain = "False"

\* Variable::value for BoolVar
BoolVar_value(self) ==
    CASE self.domain = "True" -> Some(TRUE)
      [] self.domain = "False" -> Some(FALSE)
      [] OTHER -> None

\* FiniteDomain::size for BoolVar
BoolVar_size(self) ==
    CASE self.domain = "True" -> 1
      [] self.domain = "False" -> 1
      [] self.domain = "Both" -> 2
      [] OTHER -> 0

\* NumBools variables are created; set_value is then called on them.
InitBool ==
    /\ dom = <<<<>>, <<>>>>
    /\ last = NoCall
    /\ sink = <<>>
    /\ app = [fn |-> "BoolVar::new", bools |-> [k \in 1..NumBools |-> BoolVar_new[1]]]

BoolSetValue(k, val) ==
    /\ app' = [fn |-> "set_value", bools |-> [app.bools EXCEPT ![k] = BoolVar_set_value(@, val).var],
               var |-> k, value |-> val, pre |-> app.bools,
               tag |-> BoolVar_set_value(app.bools[k], val).tag,
               st |-> BoolVar_set_value(app.bools[k], val).st]
    /\ UNCHANGED <<dom, last, sink>>

NextBool == \E k \in 1..NumBools, val \in BOOLEAN : BoolSetValue(k, val)

SpecBool == InitBool /\ [][NextBool]_vars

\* The BoolDomain that holds exactly the value val.
DomainOf(val) == IF val THEN "True" ELSE "False"

\* C23: a BoolVar is a state machine over {Both, True, False, None}: from
\* Both, set_value(b) moves to the state of b and returns BoundsChange;
\* set_value of the assigned value returns NoChange and changes nothing;
\* set_value of the opposite value, or any set_value on None, moves to None
\* and fails with DomainWipeout (None is absorbing); no other variable
\* changes; and in every reachable state size() is 2/1/1/0 for
\* Both/True/False/None, is_affected() holds exactly when size() = 1 and
\* value() is present exactly when is_affected().
C23_BoolVarStateMachine ==
    /\ \A k \in 1..NumBools :
        LET b == app.bools[k]
        IN  /\ b.domain \in BoolDomain
            /\ BoolVar_size(b) = CASE b.domain = "Both" -> 2
                                   [] b.domain \in {"True", "False"} -> 1
                                   [] b.domain = "None" -> 0
            /\ BoolVar_is_affected(b) <=> BoolVar_size(b) = 1
            /\ BoolVar_value(b) # None <=> BoolVar_is_affected(b)
            /\ b.domain \in {"True", "False"} => BoolVar_value(b) = Some(b.domain = "True")
    /\ app.fn = "set_value" =>
        LET p == app.pre[app.var].domain
            q == app.bools[app.var].domain
        IN  /\ \A k \in 1..NumBools : k # app.var => app.bools[k] = app.pre[k]
            /\ p = "Both" =>
                q = DomainOf(app.value) /\ app.tag = "Ok" /\ app.st = <<"BoundsChange">>
            /\ p = DomainOf(app.value) =>
                q = p /\ app.tag = "Ok" /\ app.st = <<"NoChange">>
            /\ p \in {DomainOf(~app.value), "None"} =>
                q = "None" /\ app.tag = "Err" /\ app.st = <<"DomainWipeout">>

\* A variable assigned True has been set to false: it is wiped out, while
\* another one, already wiped out, stays so.
C23_Witness ==
    /\ app.fn = "set_value"
    /\ app.pre[app.var].domain = "True"
    /\ app.value = FALSE
    /\ app.bools[app.var].domain = "None"
    /\ app.tag = "Err"
    /\ \E k \in 1..NumBools : k # app.var /\ app.pre[k].domain = "None"

(* ------------- the two forms of an operation, side by side ------------- *)

\* A result on one domain as a result on self and value, value untouched.
OnSelf(r, val) == [self |-> r.domain, value |-> val, tag |-> r.tag, st |-> r.st]

\* The operations that exist in both forms.
BothForms == ObserverOps \cup {"in_sorted_values"}

\* The notification-unaware form of the call c on IntVarValues self, val.
PlainCall(c, self, val) ==
    CASE c.op = "set_value" -> OnSelf(set_value(self, c.val), val)
      [] c.op = "strict_upperbound" -> OnSelf(strict_upperbound(self, c.val), val)
      [] c.op = "weak_upperbound" -> OnSelf(weak_upperbound(self, c.val), val)
      [] c.op = "strict_lowerbound" -> OnSelf(strict_lowerbound(self, c.val), val)
      [] c.op = "weak_lowerbound" -> OnSelf(weak_lowerbound(self, c.val), val)
      [] c.op = "equal" -> equal(self, val)
      [] c.op = "not_equal" -> not_equal(self, val)
      [] c.op = "in_values" -> OnSelf(in_values(self, c.vals), val)
      [] c.op = "in_sorted_values" -> OnSelf(in_sorted_values(self, c.vals), val)
      [] c.op = "remove_value" -> OnSelf(remove_value(self, c.val), val)
      [] c.op = "remove_if" -> OnSelf(remove_if(self, c.pred), val)
      [] c.op = "retains_if" -> OnSelf(retains_if(self, c.pred), val)

\* The notification-aware form of the call c on CruspIntVarValues with the
\* same domains, handed the observer o.
ObserverCall(c, self, val, o) ==
    LET id_self == c.var
        id_value == 3 - c.var
        Drop(r) == [self |-> r.self, value |-> r.value, tag |-> r.tag, st |-> r.st]
    IN  CASE c.op = "set_value" -> OnSelf(observer_set_value(self, id_self, o, c.val), val)
          [] c.op = "strict_upperbound" ->
                OnSelf(observer_strict_upperbound(self, id_self, o, c.val), val)
          [] c.op = "weak_upperbound" ->
                OnSelf(observer_weak_upperbound(self, id_self, o, c.val), val)
          [] c.op = "strict_lowerbound" ->
                OnSelf(observer_strict_lowerbound(self, id_self, o, c.val), val)
          [] c.op = "weak_lowerbound" ->
                OnSelf(observer_weak_lowerbound(self, id_self, o, c.val), val)
          [] c.op = "equal" -> Drop(observer_equal(self, val, id_self, id_value, o))
          [] c.op = "not_equal" -> Drop(observer_not_equal(self, val, id_self, id_value, o))
          [] c.op = "in_values" -> OnSelf(observer_in_values(self, id_self, o, c.vals), val)
          [] c.op = "in_sorted_values" ->
                OnSelf(observer_in_sorted_values(self, id_self, o, c.vals), val)
          [] c.op = "remove_value" -> OnSelf(observer_remove_value(self, id_self, o, c.val), val)
          [] c.op = "remove_if" -> OnSelf(observer_remove_if(self, id_self, o, c.pred), val)
          [] c.op = "retains_if" -> OnSelf(observer_retains_if(self, id_self, o, c.pred), val)

\* C24: for every operation that has both forms, the notification-aware
\* call that has just returned has left the
\* domains the notification-unaware form leaves on the same starting domains
\* and arguments; so does the notification-aware form with every observer;
\* and with the observer that always accepts it returns the same result.
C24_FormsAgree ==
    last.op \in BothForms =>
        LET plain == PlainCall(last, last.pre[Self], last.pre[Other])
        IN  /\ dom[Self] = plain.self
            /\ dom[Other] = plain.value
            /\ last.tag = plain.tag
            /\ last.st = plain.st
            /\ \A o \in Observers :
                LET aware == ObserverCall(last, last.pre[Self], last.pre[Other], o)
                IN  /\ aware.self = plain.self
                    /\ aware.value = plain.value
                    /\ (o.accept /\ o.keep) => aware.tag = plain.tag /\ aware.st = plain.st

\* remove_value has taken an inner value out of a domain and returned
\* ValuesChange as the notification-unaware form does; with an observer that
\* rejects the change the same call fails and leaves the same domain.
C24_Witness ==
    /\ last.op = "remove_value"
    /\ last.pre[Self] = <<0, 1, 2>>
    /\ last.val = 1
    /\ dom[Self] = <<0, 2>>
    /\ sink = <<[id |-> Self, kind |-> "change", what |-> "ValuesChange"]>>
    /\ last.tag = "Ok"
    /\ last.st = <<"ValuesChange">>
    /\ observer_remove_value(last.pre[Self], Self, Observer(FALSE, TRUE), 1).tag = "Err"
    /\ observer_remove_value(last.pre[Self], Self, Observer(FALSE, TRUE), 1).domain = <<0, 2>>

(* ------------------ the loop of equal_bounds, step by step ------------- *)

\* The loop test breaking as soon as ONE side reports no change.
equal_bounds_breaks_on_either(new_x, new_y) == new_x = "NoChange" \/ new_y = "NoChange"

\* if (new_x == VState::null()) && (new_y == VState::null()) { break; }
equal_bounds_breaks(new_x, new_y) == new_x = "NoChange" /\ new_y = "NoChange"

\* Two non-empty domains; equal_bounds is called on them with the default
\* observer, runs its loop statement by statement and returns.
InitEqualBounds ==
    /\ dom \in {<<a, b>> : a \in Constructed, b \in Constructed}
    /\ last = NoCall
    /\ sink = <<>>
    /\ app = NoApp

\* let mut x = VState::null(); let mut y = VState::null();  pc is "enter"
\* before the first pass and "loop" before a later one (both at the call of
\* less_or_equal_than), "greater_or_equal_than" between the two calls of a
\* pass and "return" once the call has its result; entered holds the domains
\* the last pass began with.
EqualBoundsCall(i) ==
    /\ app = NoApp
    /\ app' = [fn |-> "equal_bounds", var |-> i, pc |-> "enter", pre |-> dom, entered |-> dom,
               x |-> "NoChange", y |-> "NoChange", x1 |-> "NoChange", y1 |-> "NoChange",
               tag |-> "None", st |-> <<>>]
    /\ sink' = <<>>
    /\ UNCHANGED <<dom, last>>

\* let (x1, y1) = self.less_or_equal_than(observer, value)?;
EqualBoundsLessOrEqual ==
    /\ app.fn = "equal_bounds"
    /\ app.pc \in {"enter", "loop"}
    /\ LET i == app.var
           r == less_or_equal_than(dom[i], dom[3 - i], i, 3 - i, NoOpObserver)
       IN  /\ dom' = [dom EXCEPT ![i] = r.self, ![3 - i] = r.value]
           /\ sink' = sink \o r.o.log
           /\ app' = IF r.tag = "Ok"
                     THEN [app EXCEPT !.pc = "greater_or_equal_than", !.entered = dom,
                                      !.x1 = r.st[1], !.y1 = r.st[2]]
                     ELSE [app EXCEPT !.pc = "return", !.entered = dom,
                                      !.tag = r.tag, !.st = r.st]
    /\ UNCHANGED last

\* let (x2, y2) = self.greater_or_equal_than(observer, value)?; and the rest
\* of the pass: the merges, the loop test, and either the break with
\* Ok((x, y)) or the merge into x and y.
EqualBoundsGreaterOrEqual ==
    /\ app.fn = "equal_bounds"
    /\ app.pc = "greater_or_equal_than"
    /\ \E r \in {greater_or_equal_than(dom[app.var], dom[3 - app.var], app.var, 3 - app.var,
                                       NoOpObserver)} :
        /\ dom' = [dom EXCEPT ![app.var] = r.self, ![3 - app.var] = r.value]
        /\ sink' = sink \o r.o.log
        /\ IF r.tag # "Ok"
           THEN app' = [app EXCEPT !.pc = "return", !.tag = r.tag, !.st = r.st]
           ELSE \E new_x \in {bitor(app.x1, r.st[1])}, new_y \in {bitor(app.y1, r.st[2])} :
                    IF equal_bounds_breaks(new_x, new_y)
                    THEN app' = [app EXCEPT !.pc = "return", !.tag = "Ok",
                                            !.st = <<app.x, app.y>>]
                    ELSE app' = [app EXCEPT !.pc = "loop", !.x = bitor(app.x, new_x),
                                            !.y = bitor(app.y, new_y)]
    /\ UNCHANGED last

\* The caller takes the result and goes on.
EqualBoundsReturn ==
    /\ app.fn = "equal_bounds"
    /\ app.pc = "return"
    /\ app.tag # "Panic"
    /\ app' = NoApp
    /\ sink' = <<>>
    /\ UNCHANGED <<dom, last>>

NextEqualBounds ==
    \/ \E i \in Vars : EqualBoundsCall(i)
    \/ EqualBoundsLessOrEqual
    \/ EqualBoundsGreaterOrEqual
    \/ EqualBoundsReturn

\* The loop is sequential code: a statement that can run does run.
SpecEqualBounds ==
    /\ InitEqualBounds
    /\ [][NextEqualBounds]_vars
    /\ WF_vars(EqualBoundsLessOrEqual)
    /\ WF_vars(EqualBoundsGreaterOrEqual)

\* C25: with the always-accepting observer the loop of equal_bounds on two
\* non-empty domains terminates; every pass that does not leave the loop
\* strictly shrinks at least one of the two domains and enlarges neither; and
\* the call ends either with DomainWipeout or with Ok, and then
\* min(self) = min(value) and max(self) = max(value).
C25_EqualBoundsTerminates ==
    /\ (app.fn = "equal_bounds" /\ app.pc # "return")
           ~> (app.fn = "equal_bounds" /\ app.pc = "return")
    /\ [](app.fn = "equal_bounds" =>
            /\ \A i \in Vars : dom[i] # <<>>
            /\ \A i \in Vars : ToSet(dom[i]) \subseteq ToSet(app.entered[i])
            /\ app.pc = "loop" => \E i \in Vars : Len(dom[i]) < Len(app.entered[i])
            /\ app.pc = "return" =>
                \/ app.tag = "Err" /\ app.st = <<"DomainWipeout">>
                \/ /\ app.tag = "Ok"
                   /\ dom = app.entered
                   /\ min(dom[1]) = min(dom[2])
                   /\ max(dom[1]) = max(dom[2]))

\* equal_bounds has needed two shrinking passes and a third, unchanged one to
\* bring [0, 1] and [0, 2] to the same bounds.
C25_Witness ==
    /\ app.fn = "equal_bounds"
    /\ app.pc = "return"
    /\ app.pre[app.var] = <<0, 1>>
    /\ app.pre[3 - app.var] = <<0, 2>>
    /\ app.tag = "Ok"
    /\ app.st = <<"BoundsChange", "BoundsChange">>
    /\ dom = <<<<0>>, <<0>>>>

(* ------------------ sequences of IntVarValues operations --------------- *)

\* C26: from the domains the constructors return, no sequence of IntVarValues
\* operations, calls made after a DomainWipeout included, ends in the panic
\* of unchecked_min / unchecked_max on an empty domain.
C26_NoPanic == last.tag # "Panic"

\* Per side of the call that has just returned: the variable, its returned
\* classification, and whether its domain is as it was before the call.
Sides ==
    IF Len(last.st) = 2 THEN {[var |-> Self, st |-> last.st[1]], [var |-> Other, st |-> last.st[2]]}
    ELSE {[var |-> Self, st |-> last.st[1]]}

\* C27: for every IntVarValues operation that returns Ok on non-empty
\* domains, the classification returned for a variable is NoChange if and
\* only if that variable's domain is the same before and after the call, per
\* side for equal and not_equal.
C27_NoChangeIffUnchanged ==
    (~Idle /\ last.tag = "Ok" /\ PreSelf # {}
        /\ (Len(last.st) = 2 => PreOther # {})) =>
        \A side \in Sides : side.st = "NoChange" <=> dom[side.var] = last.pre[side.var]

\* equal has returned (NoChange, ValuesChange): self is as before, value has
\* lost an inner value.
C27_Witness ==
    /\ last.op = "equal"
    /\ last.tag = "Ok"
    /\ last.st = <<"NoChange", "ValuesChange">>
    /\ dom[Self] = last.pre[Self]
    /\ dom[Other] # last.pre[Other]

\* C28: domains only shrink: every step, a call that succeeds or one that
\* fails, leaves each variable's domain a subset of what it was, so size()
\* never increases and a value that was removed never comes back.
C28_DomainsOnlyShrink ==
    [][\A i \in Vars :
          /\ ToSet(dom'[i]) \subseteq ToSet(dom[i])
          /\ size(dom'[i]) <= size(dom[i])]_vars

\* in_values was offered the value 2, which the domain [0, 1] does not hold,
\* and has kept 1 alone.
C28_Witness ==
    /\ last.op = "in_values"
    /\ last.pre[Self] = <<0, 1>>
    /\ last.vals = <<2, 1>>
    /\ dom[Self] = <<1>>
    /\ last.tag = "Ok"

\* C29: an IntVarValues operation that returns Ok on non-empty domains leaves
\* every domain non-empty, and a domain that was not empty before a call is
\* empty after it only if the call returned Err(DomainWipeout).
C29_OkLeavesDomainsNonEmpty ==
    ~Idle =>
        /\ (last.tag = "Ok" /\ PreSelf # {} /\ (Len(last.st) = 2 => PreOther # {})) =>
              \A i \in Vars : last.pre[i] # <<>> => dom[i] # <<>>
        /\ \A i \in Vars :
              (last.pre[i] # <<>> /\ dom[i] = <<>>) =>
                  last.tag = "Err" /\ last.st = <<"DomainWipeout">>

\* remove_if has taken one of the two values of [0, 1] and answered Ok; not_equal
\* on [0, 1] and [1] has left 0 alone and answered Ok.
C29_Witness ==
    /\ last.tag = "Ok"
    /\ \/ /\ last.op = "remove_if"
          /\ last.pre[Self] = <<0, 1>>
          /\ dom[Self] = <<0>>
       \/ /\ last.op = "not_equal"
          /\ last.pre[Self] = <<0, 1>>
          /\ last.pre[Other] = <<1>>
          /\ dom[Self] = <<0>>

\* C30: `|` is closed and associative: for all classifications a, b, c the
\* byte computed by a | b is the discriminant of one of the seven variants,
\* and (a | b) | c = a | (b | c).
C30_BitOrClosedAssociative ==
    Merged =>
        /\ bitor_byte(ToByte(app.a), ToByte(app.b)) \in {Discriminant[s] : s \in IntVariableState}
        /\ app.out \in IntVariableState
        /\ \A c \in IntVariableState :
              /\ bitor(app.b, c) \in IntVariableState
              /\ bitor(app.out, c) = bitor(app.a, bitor(app.b, c))

\* MaxBoundChange | MinBoundChange has given BoundsChange, and a universal
\* change merged after it or into MinBoundChange before it gives
\* UniversalError either way.
C30_Witness ==
    /\ app.fn = "bitor"
    /\ app.a = "MaxBoundChange"
    /\ app.b = "MinBoundChange"
    /\ app.out = "BoundsChange"
    /\ bitor(app.out, "UniversalChange") = "UniversalError"
    /\ bitor(app.a, bitor(app.b, "UniversalChange")) = "UniversalError"

====
